---- MODULE Spec2Model ----
(***************************************************************************)
(* A model of the WPCS MCP server: the PhpcsRunner (check, fix,            *)
(* checkFiles, fixAndCheck) of src/src/utils.ts and the tool handlers of   *)
(* src/src/server.ts.  One request is handled at a time (execSync blocks   *)
(* the event loop); every external command (git, phpcs, phpcbf) is one     *)
(* step whose outcome the environment chooses.                             *)
(***************************************************************************)
EXTENDS Integers, Sequences, FiniteSets, TLC

\* ------------------------------------------------------------------ bounds
\* Longest candidate list handed to checkFiles / fixAndCheck / staged diff.
MaxFiles == 2

\* ------------------------------------------------------------- the world
\* The PHP files of the working tree: one of the project's own, one of a
\* dependency under vendor/.
Paths == {"a.php", "vendor/b.php"}

\* The project directory, and the PHP files phpcs finds under it, in the
\* order it walks them.
RootDir == "."
Tree == <<"a.php", "vendor/b.php">>

\* The files under the directories the tool descriptions call excluded
\* (vendor/, node_modules/, build/).
ExcludedPaths == {"vendor/b.php"}

\* A falsy tool argument: undefined, or the empty string.
Undefined == "<undefined>"
Falsy(x) == x \in {Undefined, ""}

None == [none |-> TRUE]

\* The content of a file, abstracted to the findings the analyzer has for it:
\* a fixable ERROR, an unfixable ERROR, a WARNING.
Content == [ferr : BOOLEAN, uerr : BOOLEAN, warn : BOOLEAN]

CleanContent == [ferr |-> FALSE, uerr |-> FALSE, warn |-> FALSE]

\* What the fixer can rewrite: the fixable finding goes away.
Fixed(c) == [c EXCEPT !.ferr = FALSE]

\* PhpcsMessage (type, fixable): the messages phpcs reports for a content.
Messages(c) ==
    (IF c.ferr THEN <<[type |-> "ERROR", fixable |-> TRUE]>> ELSE <<>>)
    \o (IF c.uerr THEN <<[type |-> "ERROR", fixable |-> FALSE]>> ELSE <<>>)
    \o (IF c.warn THEN <<[type |-> "WARNING", fixable |-> FALSE]>> ELSE <<>>)

IsError(m) == m.type = "ERROR"
IsWarning(m) == m.type = "WARNING"
IsFixable(m) == m.fixable

\* PhpcsFileResult with its path: what phpcs reports for one file.
FileEntry(p, c) ==
    [path |-> p,
     errors |-> Len(SelectSeq(Messages(c), IsError)),
     warnings |-> Len(SelectSeq(Messages(c), IsWarning)),
     messages |-> Messages(c)]

RECURSIVE Dedup(_)
\* The targets phpcs processes: each path once, in first-occurrence order
\* (the keys of the "files" object of its JSON report).
Dedup(s) ==
    IF s = <<>> THEN <<>>
    ELSE LET r == Dedup(SubSeq(s, 1, Len(s) - 1))
             x == s[Len(s)]
         IN IF \E i \in 1..Len(r) : r[i] = x THEN r ELSE Append(r, x)

\* The files phpcs processes for one target: the file itself, or every PHP
\* file under a directory (the command line carries no --ignore pattern).
FilesUnder(t) == IF t = RootDir THEN Tree ELSE <<t>>

RECURSIVE Expand(_)
Expand(targets) ==
    IF targets = <<>> THEN <<>>
    ELSE FilesUnder(targets[1]) \o Expand(Tail(targets))

RECURSIVE SumErrors(_)
SumErrors(fs) ==
    IF fs = <<>> THEN 0 ELSE fs[1].errors + SumErrors(Tail(fs))

RECURSIVE SumWarnings(_)
SumWarnings(fs) ==
    IF fs = <<>> THEN 0 ELSE fs[1].warnings + SumWarnings(Tail(fs))

RECURSIVE SumFixable(_)
SumFixable(fs) ==
    IF fs = <<>> THEN 0
    ELSE Len(SelectSeq(fs[1].messages, IsFixable)) + SumFixable(Tail(fs))

\* PhpcsResult: the JSON report of phpcs --report=json over the targets.
Report(targets, d) ==
    LET ts == Dedup(Expand(targets))
        fs == [i \in 1..Len(ts) |-> FileEntry(ts[i], d[ts[i]])]
    IN [totals |-> [errors |-> SumErrors(fs),
                    warnings |-> SumWarnings(fs),
                    fixable |-> SumFixable(fs)],
        files |-> fs]

\* A report whose per-file counts are not borne out by its message lists:
\* the counts are there, the messages are not.
Miscounted(rep) ==
    [rep EXCEPT !.files =
        [i \in 1..Len(rep.files) |-> [rep.files[i] EXCEPT !.messages = <<>>]]]

\* How one run of the analyzer goes: it analyses the targets ("run"), it dies
\* without writing to stdout ("crash"), it exits non-zero with stdout that
\* is no JSON report ("garbage": a PHP notice, "file does not exist", ...),
\* or it writes JSON of the shape of a report whose counts and messages
\* disagree ("miscount"); the code takes any JSON that parses.
PhpcsModes == {"run", "crash", "garbage", "miscount"}

\* The (exit status, stdout) of: phpcs --standard=.. --report=json targets.
\* The code observes only status = 0 / # 0 and stdout.
Phpcs(targets, d, mode) ==
    LET rep == Report(targets, d)
    IN CASE mode = "crash" -> [status |-> 255, stdout |-> [kind |-> "empty"]]
         [] mode = "garbage" -> [status |-> 3, stdout |-> [kind |-> "text"]]
         [] mode = "miscount" ->
              IF rep.totals.errors = 0 /\ rep.totals.warnings = 0
              THEN [status |-> 0, stdout |-> [kind |-> "json", value |-> rep]]
              ELSE [status |-> 1,
                    stdout |-> [kind |-> "json", value |-> Miscounted(rep)]]
         [] OTHER ->
              IF rep.totals.errors = 0 /\ rep.totals.warnings = 0
              THEN [status |-> 0, stdout |-> [kind |-> "json", value |-> rep]]
              ELSE [status |-> 1, stdout |-> [kind |-> "json", value |-> rep]]

\* The exit statuses of phpcbf: 0 nothing fixed, 1 fixes applied, 2 failed to
\* fix, 3 processing error.
FixerStatuses == {0, 1, 2, 3}

\* What one run of phpcbf on a file of content c can do: any exit status, the
\* file rewritten or left as it was.
Phpcbf(c) == [status : FixerStatuses, content : {c, Fixed(c)}]


\* ------------------------------------------------------------ PhpcsRunner
\* WpcsCheckResult of a clean exit / of the empty file list.
CleanResult(summary) ==
    [success |-> TRUE, canCommit |-> TRUE, totalErrors |-> 0,
     totalWarnings |-> 0, fixableCount |-> 0, files |-> <<>>,
     summary |-> <<summary>>]

\* WpcsCheckResult of a failed invocation.
FailedResult(summary) ==
    [success |-> FALSE, canCommit |-> FALSE, totalErrors |-> 1,
     totalWarnings |-> 0, fixableCount |-> 0, files |-> <<>>,
     summary |-> <<summary>>]

\* PhpcsRunner.formatSummary, as the parts it puts in the text.
formatSummary(totals, fileCount) ==
    <<"Found">>
    \o (IF totals.errors > 0 THEN <<"error(s)">> ELSE <<>>)
    \o (IF totals.warnings > 0 THEN <<"warning(s)">> ELSE <<>>)
    \o (IF totals.fixable > 0 THEN <<"can be auto-fixed">> ELSE <<>>)
    \o (IF totals.errors > 0 THEN <<"COMMIT BLOCKED">> ELSE <<>>)

\* Object.entries(result.files).map(...): each entry of the report becomes
\* an entry of the result, its counts and messages copied as they are.
ResultFiles(result) ==
    [i \in 1..Len(result.files) |->
        [path |-> result.files[i].path,
         errors |-> result.files[i].errors,
         warnings |-> result.files[i].warnings,
         messages |-> result.files[i].messages]]

\* A variant of ParsedResult in which warnings block the commit too.
ParsedResultWarningsBlock(result) ==
    [success |-> FALSE,
     canCommit |-> (result.totals.errors = 0 /\ result.totals.warnings = 0),
     totalErrors |-> result.totals.errors,
     totalWarnings |-> result.totals.warnings,
     fixableCount |-> result.totals.fixable,
     files |-> ResultFiles(result),
     summary |-> formatSummary(result.totals, Len(result.files))]

\* A variant of ParsedResult in which success follows the error total.
ParsedResultSuccessIfNoErrors(result) ==
    [success |-> (result.totals.errors = 0),
     canCommit |-> (result.totals.errors = 0),
     totalErrors |-> result.totals.errors,
     totalWarnings |-> result.totals.warnings,
     fixableCount |-> result.totals.fixable,
     files |-> ResultFiles(result),
     summary |-> formatSummary(result.totals, Len(result.files))]

\* WpcsCheckResult built from a parsed report (both check and checkFiles).
ParsedResult(result) ==
    [success |-> FALSE,
     canCommit |-> (result.totals.errors = 0),
     totalErrors |-> result.totals.errors,
     totalWarnings |-> result.totals.warnings,
     fixableCount |-> result.totals.fixable,
     files |-> ResultFiles(result),
     summary |-> formatSummary(result.totals, Len(result.files))]

\* A variant of CheckOutcome that takes empty stdout for a report of nothing.
CheckOutcomeEmptyIsClean(o) ==
    IF o.status = 0 THEN CleanResult("No coding standard violations found.")
    ELSE IF o.stdout.kind = "empty"
    THEN CleanResult("No coding standard violations found.")
    ELSE IF o.stdout.kind # "json" THEN FailedResult("Error running phpcs")
    ELSE ParsedResult(o.stdout.value)

\* PhpcsRunner.check from the outcome o of its phpcs run: the inner catch
\* throws on empty stdout and on JSON.parse, the outer catch turns every
\* throw into a failed result.
CheckOutcome(o) ==
    IF o.status = 0 THEN CleanResult("No coding standard violations found.")
    ELSE IF o.stdout.kind = "empty" THEN FailedResult("Error running phpcs")
    ELSE IF o.stdout.kind # "json" THEN FailedResult("Error running phpcs")
    ELSE ParsedResult(o.stdout.value)

Return(v) == [kind |-> "return", value |-> v]
Throw == [kind |-> "throw"]

\* PhpcsRunner.checkFiles from the outcome o of its phpcs run: JSON.parse is
\* outside any try block there, so unparsable stdout throws to the caller.
CheckFilesOutcome(o) ==
    IF o.status = 0 THEN Return(CleanResult("All PHP file(s) pass"))
    ELSE IF o.stdout.kind = "empty" THEN Return(FailedResult("phpcs failed"))
    ELSE IF o.stdout.kind # "json" THEN Throw
    ELSE Return(ParsedResult(o.stdout.value))

\* PhpcsRunner.checkFiles on the empty list: no command is run.
EmptyCheckFiles == CleanResult("No PHP files to check.")

\* The shell word `"${f}"`.
Quote(f) == <<"\"", f, "\"">>

\* A variant of ReStageCommand with the length test off by one.
ReStageCommandOffByOne(ff) ==
    IF Len(ff) > 1
    THEN [prog |-> "git add", args |-> [i \in 1..Len(ff) |-> Quote(ff[i])]]
    ELSE None

\* fixAndCheck's reStageCommand: git add "f1" "f2" ..., or undefined.
ReStageCommand(ff) ==
    IF Len(ff) > 0
    THEN [prog |-> "git add", args |-> [i \in 1..Len(ff) |-> Quote(ff[i])]]
    ELSE None

\* The paths a re-stage command names (its arguments without the quotes).
CommandPaths(cmd) == [i \in 1..Len(cmd.args) |-> cmd.args[i][2]]

\* A variant of FixClean that reports the untouched file as fixed.
FixCleanAsFixed(file, before) ==
    [success |-> TRUE, fixed |-> TRUE, file |-> file, remainingIssues |-> before]

\* WpcsFixResult of the three exits of PhpcsRunner.fix.
FixClean(file, before) ==
    [success |-> TRUE, fixed |-> FALSE, file |-> file, remainingIssues |-> before]
FixDone(file, after) ==
    [success |-> TRUE, fixed |-> TRUE, file |-> file, remainingIssues |-> after]
FixFailed(file) ==
    [success |-> FALSE, fixed |-> FALSE, file |-> file, remainingIssues |-> None]

\* A variant of FixerThrows in which every non-zero exit status throws.
FixerThrowsOnNonZero(status) == status # 0

\* phpcbf's exit status makes fix throw only when it is 2.
FixerThrows(status) == status = 2

\* --------------------------------------------------------- WpcsMcpServer
successResult(text) == [isError |-> FALSE, text |-> text]
errorResult(text) == [isError |-> TRUE, text |-> <<"Error">> \o text]

\* WpcsMcpServer.formatCheckResult.
formatCheckResult(result) ==
    IF result.success THEN successResult(result.summary)
    ELSE [isError |-> ~result.canCommit,
          text |-> result.summary
                   \o (IF result.fixableCount > 0 THEN <<"Tip">> ELSE <<>>)]

\* The response of WpcsMcpServer.fixFile to the result of fix.
FixFileResponse(result) ==
    IF ~result.success THEN errorResult(<<"Failed to fix file">>)
    ELSE IF ~result.fixed THEN successResult(<<"No fixable issues found">>)
    ELSE successResult(<<"Fixed">>
             \o (IF result.remainingIssues.success
                 THEN <<"All issues resolved">> ELSE <<"Remaining issues">>))

\* A variant of NoStagedResponse that reports the empty staged set as an error.
NoStagedResponseAsError(name) ==
    errorResult(<<"No staged PHP files to check">>)

\* The response of checkStagedFiles and preCommitWorkflow when no PHP file
\* is staged.
NoStagedResponse(name) ==
    successResult(IF name = "wpcs_pre_commit"
                  THEN <<"PRE-COMMIT: PASSED", "No staged PHP files to check">>
                  ELSE <<"No staged PHP files to check">>)

\* A variant of PreCommitResponse in which a failed re-stage sets the error flag.
PreCommitResponseStageError(checkResult, ff, cmd, stage) ==
    [isError |-> (~checkResult.canCommit \/ stage = "failed"),
     text |-> (IF Len(ff) > 0
               THEN <<"AUTO-FIXED">>
                    \o (CASE stage = "ok" -> <<"Fixed files have been re-staged">>
                          [] stage = "failed" -> <<"Warning: Could not re-stage files">>
                          [] OTHER -> IF cmd # None
                                      THEN <<"Re-stage fixed files with">>
                                      ELSE <<>>)
               ELSE <<>>)
              \o (IF checkResult.canCommit
                  THEN <<"PRE-COMMIT: PASSED">>
                  ELSE <<"PRE-COMMIT: BLOCKED">>)]

\* The response of preCommitWorkflow; stage is how the re-stage went:
\* "ok", "failed", or "skipped" when git add was not run.
PreCommitResponse(checkResult, ff, cmd, stage) ==
    [isError |-> ~checkResult.canCommit,
     text |-> (IF Len(ff) > 0
               THEN <<"AUTO-FIXED">>
                    \o (CASE stage = "ok" -> <<"Fixed files have been re-staged">>
                          [] stage = "failed" -> <<"Warning: Could not re-stage files">>
                          [] OTHER -> IF cmd # None
                                      THEN <<"Re-stage fixed files with">>
                                      ELSE <<>>)
               ELSE <<>>)
              \o (IF checkResult.canCommit
                  THEN <<"PRE-COMMIT: PASSED">>
                  ELSE <<"PRE-COMMIT: BLOCKED">>)]

\* ----------------------------------------------------------------- git
\* The paths git can report: the PHP files and one file that is no PHP.
DiffPaths == Paths \cup {"notes.txt"}

\* path.endsWith('.php'), over the paths of the model.
EndsWithPhp(p) == p \in Paths

\* One line of git diff --cached --name-status, split at the tabs: status
\* and path, or for a rename the status with its score, the old path and
\* the new path.
DiffLines ==
    {<<s, p>> : s \in {"M", "A", "D"}, p \in DiffPaths}
    \cup {l \in {<<"R100", old, new>> : old \in DiffPaths, new \in DiffPaths} :
               l[2] # l[3]}

\* The paths a line names.
LinePaths(line) == {line[i] : i \in 2..Len(line)}

RECURSIVE SeqsUpTo(_, _)
SeqsUpTo(S, n) ==
    IF n = 0 THEN {<<>>}
    ELSE LET shorter == SeqsUpTo(S, n - 1)
         IN shorter \cup {Append(s, x) : s \in shorter, x \in S}

\* The outputs of git diff: at most MaxFiles lines, no path on two lines.
DiffOutputs ==
    {out \in SeqsUpTo(DiffLines, MaxFiles) :
        \A i, j \in 1..Len(out) :
            LinePaths(out[i]) \cap LinePaths(out[j]) # {} => i = j}

KeepStaged(line) ==
    /\ ~Falsy(line[2])
    /\ EndsWithPhp(line[2])
    /\ line[1] # "D"

\* A variant of getStagedPhpFiles that goes by the lines also when git failed.
getStagedPhpFilesIgnoringFailure(gitOk, out) ==
    LET kept == SelectSeq(out, KeepStaged)
    IN [i \in 1..Len(kept) |-> [status |-> kept[i][1], path |-> kept[i][2]]]

\* getStagedPhpFiles from the lines of the diff (the catch returns []).
getStagedPhpFiles(gitOk, out) ==
    IF ~gitOk THEN <<>>
    ELSE LET kept == SelectSeq(out, KeepStaged)
         IN [i \in 1..Len(kept) |-> [status |-> kept[i][1], path |-> kept[i][2]]]

FilePaths(staged) == [i \in 1..Len(staged) |-> staged[i].path]


\* ---------------------------------------------------------------- state
\* ---------------------------------------------------------------- startup
\* MIN_PHP_VERSION = '8.2.0': major and minor, the parts main compares.
MinPhpVersion == [major |-> 8, minor |-> 2]

\* What `php -v` gives: the command fails, prints no version, or prints one.
PhpVersions == {[major |-> 7, minor |-> 4], [major |-> 8, minor |-> 1],
                [major |-> 8, minor |-> 2], [major |-> 8, minor |-> 3],
                [major |-> 9, minor |-> 0]}
PhpOutputs ==
    {[kind |-> "failed", major |-> 0, minor |-> 0],
     [kind |-> "garbled", major |-> 0, minor |-> 0]}
    \cup {[kind |-> "version", major |-> v.major, minor |-> v.minor] :
             v \in PhpVersions}

\* checkPhpVersion: `php -v` and `which php`; any failure is caught.
checkPhpVersion(out, whichOk) ==
    IF out.kind = "failed"
    THEN [valid |-> FALSE, major |-> 0, minor |-> 0,
          error |-> "PHP not found in PATH"]
    ELSE IF out.kind = "garbled"
    THEN [valid |-> FALSE, major |-> 0, minor |-> 0,
          error |-> "Could not determine PHP version"]
    ELSE IF ~whichOk
    THEN [valid |-> FALSE, major |-> 0, minor |-> 0,
          error |-> "PHP not found in PATH"]
    ELSE IF \/ out.major < MinPhpVersion.major
            \/ (out.major = MinPhpVersion.major /\ out.minor < MinPhpVersion.minor)
    THEN [valid |-> FALSE, major |-> out.major, minor |-> out.minor,
          error |-> "version 8.2.0+ is required"]
    ELSE [valid |-> TRUE, major |-> out.major, minor |-> out.minor,
          error |-> ""]

\* checkPhpcsInstalled: `which phpcs`, else the file in composer's bin.
checkPhpcsInstalled(whichOk, composerPhpcs) ==
    [installed |-> whichOk \/ composerPhpcs]

\* What `phpcs -i` gives: it fails, or lists standards with or without the
\* word WordPress.
PhpcsListings == {"WordPress", "other", "failed"}

\* checkWpcsInstalled: output.includes('WordPress').
checkWpcsInstalled(listing) == [installed |-> listing = "WordPress"]

\* What the commands of autoInstallWpcs give.
InstallRuns ==
    [php : PhpOutputs, whichPhp : BOOLEAN, whichComposer : BOOLEAN,
     composerV : {"1.x", "2.x", "failed"}, require : BOOLEAN,
     whichPhpcs : BOOLEAN, listing : PhpcsListings]

\* autoInstallWpcs: the PHP check, composer found and not 1.x, one
\* `composer global require` (an error or its timeout throws), then the
\* verification by `which phpcs` and `phpcs -i`.  Every throw is caught.
autoInstallWpcs(e) ==
    IF ~checkPhpVersion(e.php, e.whichPhp).valid
    THEN [success |-> FALSE, message |-> "Cannot auto-install"]
    ELSE IF ~e.whichComposer
    THEN [success |-> FALSE, message |-> "Composer not found"]
    ELSE IF e.composerV = "1.x"
    THEN [success |-> FALSE, message |-> "Composer 1.x detected"]
    ELSE IF ~e.require \/ ~e.whichPhpcs \/ e.listing = "failed"
    THEN [success |-> FALSE, message |-> "Auto-install failed"]
    ELSE IF e.listing # "WordPress"
    THEN [success |-> FALSE, message |-> "WordPress standard not detected"]
    ELSE [success |-> TRUE, message |-> "Successfully installed WPCS"]

NeedsInstallOnlyIfBoth(phpcsCheck, wpcsCheck) ==
    ~phpcsCheck.installed /\ ~wpcsCheck.installed

\* main: !phpcsCheck.installed || !wpcsCheck.installed
NeedsInstall(phpcsCheck, wpcsCheck) ==
    ~phpcsCheck.installed \/ ~wpcsCheck.installed

\* main before its first statement.
MainStart ==
    [pc |-> "start", phpCheck |-> None, phpcsCheck |-> None,
     wpcsCheck |-> None, installResult |-> None, installs |-> 0,
     checks |-> 0, exitCode |-> None]

\* main after server.run() of a start that found everything in place.
MainServing ==
    [pc |-> "serving",
     phpCheck |-> checkPhpVersion(
         [kind |-> "version", major |-> 8, minor |-> 2], TRUE),
     phpcsCheck |-> checkPhpcsInstalled(TRUE, FALSE),
     wpcsCheck |-> checkWpcsInstalled("WordPress"),
     installResult |-> None, installs |-> 0, checks |-> 1,
     exitCode |-> None]

VARIABLES
    disk,        \* the content of each PHP file of the working tree
    pc,          \* where the request being handled stands
    op,          \* the request being handled
    files,       \* the candidate list of checkFiles / fixAndCheck
    idx,         \* fixAndCheck: the position of the file being fixed
    fixedFiles,  \* fixAndCheck: the files whose fix reported fixed
    chk,         \* the result of the latest check / checkFiles
    fixRes,      \* the result fix returned to fixFile or to a direct caller
    ret,         \* what a PhpcsRunner call made directly returned or threw
    resp,        \* the CallToolResult of a tool call
    calls,       \* the external commands this request ran, in order
    lastOut,     \* exit status and stdout of the latest external command
    added,       \* the paths this request re-added to the index
    fixChanged,  \* whether the phpcbf run of the current fix changed the file
    fixInfo,     \* the latest completed fix of this request, as observed,
                 \* and the fixed flags of all its completed fixes
    failedFiles, \* the files whose fix failed in this request
    prevFile,    \* the file of the latest completed fix of any request, if
                 \* that fix returned success: true
    main         \* the entry point: its position, the results it holds, the
                 \* number of auto-installs and detections, the exit status

vars == <<disk, pc, op, files, idx, fixedFiles, chk, fixRes, ret, resp,
          calls, lastOut, added, fixChanged, fixInfo, failedFiles, prevFile,
          main>>

RunnerOps == {"check", "fix", "checkFiles", "fixAndCheck"}
SingleFixOps == {"fix", "wpcs_fix_file"}
BatchFixOps == {"fixAndCheck", "wpcs_pre_commit"}

\* The target of the check / fix in progress.
Target == IF op.name \in BatchFixOps THEN files[idx] ELSE op.target

\* A request: the name of the method or tool, its path argument, and for
\* wpcs_pre_commit the autoStage flag the handler derives.
Op(name, target, autoStage) ==
    [name |-> name, target |-> target, autoStage |-> autoStage]

\* An external command as logged: the program, the method that ran it and
\* its path arguments.
Call(cmd, by, args) == [cmd |-> cmd, by |-> by, args |-> args]

\* What an external command gave back: exit status, kind of stdout.
Out(status, kind) == [status |-> status, stdout |-> kind]

\* The server as constructed, before any request.
ServerInit ==
    /\ disk \in [Paths -> Content]
    /\ pc = "idle"
    /\ op = None
    /\ files = <<>>
    /\ idx = 0
    /\ fixedFiles = <<>>
    /\ chk = None
    /\ fixRes = None
    /\ ret = None
    /\ resp = None
    /\ calls = <<>>
    /\ lastOut = None
    /\ added = <<>>
    /\ fixChanged = FALSE
    /\ fixInfo = None
    /\ failedFiles = {}
    /\ prevFile = Undefined

\* The server serving: main has passed its checks and called server.run().
Init == ServerInit /\ main = MainServing

\* A new request starts from fresh locals.
Fresh ==
    /\ main.pc = "serving"
    /\ pc \in {"idle", "done"}
    /\ calls' = <<>>
    /\ lastOut' = None
    /\ added' = <<>>
    /\ fixChanged' = FALSE
    /\ fixInfo' = None
    /\ failedFiles' = {}
    /\ fixedFiles' = <<>>
    /\ fixRes' = None
    /\ UNCHANGED <<disk, prevFile, main>>

\* ------------------------------------------------- continuations (no I/O)
\* The fixed flags of the fixes this request has completed, in order.
FixReports == IF fixInfo = None THEN <<>> ELSE fixInfo.reports

\* A variant of MoreToFix that ends the loop after the first file.
MoreToFixNever(i, fs) == FALSE

\* for (const file of files): is there a file after the one at position i.
MoreToFix(i, fs) == i < Len(fs)

\* A variant of Collect that puts a fixed file in front of the list.
CollectInFront(ff, file, fixed) == IF fixed THEN <<file>> \o ff ELSE ff

\* The loop body of fixAndCheck: if (fixResult.fixed) fixedFiles.push(file).
Collect(ff, file, fixed) == IF fixed THEN Append(ff, file) ELSE ff

\* A variant of AfterFix in which a failed fix ends the loop of fixAndCheck.
AfterFixAbortOnFailure(result, changed) ==
    /\ fixInfo' = [file |-> result.file, fixed |-> result.fixed,
                   success |-> result.success, changed |-> changed,
                   again |-> (prevFile = result.file),
                   reports |-> Append(FixReports, result.fixed)]
    /\ prevFile' = IF result.success THEN result.file ELSE Undefined
    /\ failedFiles' = IF result.success THEN failedFiles
                      ELSE failedFiles \cup {result.file}
    /\ CASE op.name = "fix" ->
              /\ fixRes' = result
              /\ ret' = Return(result)
              /\ pc' = "done"
              /\ UNCHANGED <<idx, fixedFiles, resp>>
         [] op.name = "wpcs_fix_file" ->
              /\ fixRes' = result
              /\ resp' = FixFileResponse(result)
              /\ pc' = "done"
              /\ UNCHANGED <<idx, fixedFiles, ret>>
         [] OTHER ->
              /\ fixRes' = None
              /\ fixedFiles' = Collect(fixedFiles, files[idx], result.fixed)
              /\ IF ~result.success
                 THEN /\ idx' = idx /\ pc' = "done"
                      /\ ret' = IF op.name = "fixAndCheck" THEN Throw ELSE ret
                      /\ resp' = IF op.name = "fixAndCheck" THEN resp
                                 ELSE errorResult(<<"Tool execution failed">>)
                 ELSE /\ IF MoreToFix(idx, files)
                         THEN idx' = idx + 1 /\ pc' = "precheck"
                         ELSE idx' = idx /\ pc' = "batch"
                      /\ UNCHANGED <<ret, resp>>

\* fix returned result to its caller: a direct caller, fixFile, or the loop
\* of fixAndCheck, which goes on with the next file or, after the last one,
\* to the check of all files.  changed: did phpcbf alter the file.
AfterFix(result, changed) ==
    /\ fixInfo' = [file |-> result.file, fixed |-> result.fixed,
                   success |-> result.success, changed |-> changed,
                   again |-> (prevFile = result.file),
                   reports |-> Append(FixReports, result.fixed)]
    /\ prevFile' = IF result.success THEN result.file ELSE Undefined
    /\ failedFiles' = IF result.success THEN failedFiles
                      ELSE failedFiles \cup {result.file}
    /\ CASE op.name = "fix" ->
              /\ fixRes' = result
              /\ ret' = Return(result)
              /\ pc' = "done"
              /\ UNCHANGED <<idx, fixedFiles, resp>>
         [] op.name = "wpcs_fix_file" ->
              /\ fixRes' = result
              /\ resp' = FixFileResponse(result)
              /\ pc' = "done"
              /\ UNCHANGED <<idx, fixedFiles, ret>>
         [] OTHER ->
              /\ fixRes' = None
              /\ fixedFiles' = Collect(fixedFiles, files[idx], result.fixed)
              /\ IF MoreToFix(idx, files)
                 THEN idx' = idx + 1 /\ pc' = "precheck"
                 ELSE idx' = idx /\ pc' = "batch"
              /\ UNCHANGED <<ret, resp>>

\* checkFiles returned or threw (outcome) to its caller: a direct caller,
\* checkStagedFiles, fixAndCheck called directly, or fixAndCheck under
\* preCommitWorkflow, which re-stages or answers.  ff is fixedFiles.
AfterCheckFiles(name, autoStage, outcome, ff) ==
    /\ chk' = IF outcome.kind = "return" THEN outcome.value ELSE None
    /\ CASE name = "checkFiles" ->
              /\ ret' = outcome
              /\ pc' = "done"
              /\ resp' = None
         [] name = "wpcs_check_staged" ->
              /\ resp' = IF outcome.kind = "throw"
                         THEN errorResult(<<"Tool execution failed">>)
                         ELSE formatCheckResult(outcome.value)
              /\ pc' = "done"
              /\ ret' = None
         [] name = "fixAndCheck" ->
              /\ ret' = IF outcome.kind = "throw" THEN Throw
                        ELSE Return([checkResult |-> outcome.value,
                                     fixedFiles |-> ff,
                                     reStageCommand |-> ReStageCommand(ff)])
              /\ pc' = "done"
              /\ resp' = None
         [] OTHER ->
              /\ ret' = None
              /\ IF outcome.kind = "throw"
                 THEN /\ resp' = errorResult(<<"Tool execution failed">>)
                      /\ pc' = "done"
                 ELSE IF Len(ff) > 0 /\ autoStage /\ ReStageCommand(ff) # None
                 THEN /\ resp' = None
                      /\ pc' = "add"
                 ELSE /\ resp' = PreCommitResponse(outcome.value, ff,
                                     ReStageCommand(ff), "skipped")
                      /\ pc' = "done"

\* ------------------------------------------------------------- requests
\* PhpcsRunner.check(target) called directly.
CallCheck(t) ==
    /\ Fresh
    /\ op' = Op("check", t, FALSE)
    /\ pc' = "check"
    /\ files' = <<>> /\ idx' = 0
    /\ chk' = None /\ ret' = None /\ resp' = None

\* PhpcsRunner.fix(filePath) called directly.
CallFix(f) ==
    /\ Fresh
    /\ op' = Op("fix", f, FALSE)
    /\ pc' = "precheck"
    /\ files' = <<>> /\ idx' = 0
    /\ chk' = None /\ ret' = None /\ resp' = None

\* A variant of CallCheckFiles without the early return on the empty list.
CallCheckFilesNoShortCut(fs) ==
    /\ Fresh
    /\ op' = Op("checkFiles", Undefined, FALSE)
    /\ files' = fs /\ idx' = 0
    /\ pc' = "batch" /\ chk' = None /\ ret' = None /\ resp' = None

\* PhpcsRunner.checkFiles(files) called directly.
CallCheckFiles(fs) ==
    /\ Fresh
    /\ op' = Op("checkFiles", Undefined, FALSE)
    /\ files' = fs /\ idx' = 0
    /\ IF Len(fs) = 0
       THEN AfterCheckFiles("checkFiles", FALSE, Return(EmptyCheckFiles), <<>>)
       ELSE pc' = "batch" /\ chk' = None /\ ret' = None /\ resp' = None

\* PhpcsRunner.fixAndCheck(files) called directly.
CallFixAndCheck(fs) ==
    /\ Fresh
    /\ op' = Op("fixAndCheck", Undefined, FALSE)
    /\ files' = fs
    /\ IF Len(fs) = 0
       THEN /\ idx' = 0
            /\ AfterCheckFiles("fixAndCheck", FALSE, Return(EmptyCheckFiles), <<>>)
       ELSE /\ idx' = 1 /\ pc' = "precheck"
            /\ chk' = None /\ ret' = None /\ resp' = None

PathTools == {"wpcs_check_file", "wpcs_check_directory", "wpcs_fix_file",
              "wpcs_check_php_compatibility"}
ToolNames == PathTools \cup {"wpcs_check_staged", "wpcs_pre_commit"}

\* The names a CallToolRequest can carry: the tools, and a name that is none
\* of them.
RequestNames == ToolNames \cup {"wpcs_unknown"}

\* A variant of UnknownToolResponse that answers without the error flag.
UnknownToolResponseAsSuccess(name) ==
    successResult(<<"Unknown tool", name>>)

\* The default branch of the switch: errorResult(`Unknown tool: ${name}`).
UnknownToolResponse(name) ==
    errorResult(<<"Unknown tool", name>>)

\* The values a tool argument takes; a directory argument can also name
\* the project directory.
PathArgs == Paths \cup {Undefined, ""}
ArgsOf(name) ==
    IF name \in {"wpcs_check_directory", "wpcs_check_php_compatibility"}
    THEN PathArgs \cup {RootDir}
    ELSE PathArgs

\* A variant of MissingArgumentResponse that lets the request pass.
MissingArgumentResponseAsSuccess(name) ==
    successResult(<<"argument is required">>)

\* The response to a request without its required argument: file_path,
\* directory or target "is required".
MissingArgumentResponse(name) ==
    errorResult(<<"argument is required">>)
AutoStageArgs == {"true", "false", Undefined}

\* The CallToolRequest handler up to its first external command:
\* the switch on the tool name and the argument checks of the handlers.
CallTool(name, pathArg, autoStageArg) ==
    /\ Fresh
    /\ op' = Op(name,
                IF name \in PathTools THEN pathArg ELSE Undefined,
                IF name = "wpcs_pre_commit" THEN autoStageArg # "false" ELSE FALSE)
    /\ files' = <<>> /\ idx' = 0
    /\ chk' = None /\ ret' = None
    /\ CASE name = "wpcs_check_staged" -> pc' = "diff" /\ resp' = None
         [] name = "wpcs_pre_commit" -> pc' = "which" /\ resp' = None
         [] name \in {"wpcs_check_file", "wpcs_check_directory"} ->
              IF Falsy(pathArg)
              THEN /\ resp' = MissingArgumentResponse(name)
                   /\ pc' = "done"
              ELSE pc' = "check" /\ resp' = None
         [] name = "wpcs_fix_file" ->
              IF Falsy(pathArg)
              THEN /\ resp' = MissingArgumentResponse(name)
                   /\ pc' = "done"
              ELSE pc' = "precheck" /\ resp' = None
         [] name = "wpcs_check_php_compatibility" ->
              IF Falsy(pathArg)
              THEN /\ resp' = MissingArgumentResponse(name)
                   /\ pc' = "done"
              ELSE pc' = "compat" /\ resp' = None
         [] OTHER ->
              /\ resp' = UnknownToolResponse(name)
              /\ pc' = "done"

\* ---------------------------------------------------- external commands
\* check(target) of a direct call, of checkFile and of checkDirectory:
\* the phpcs run and the return to the caller.
RunCheck ==
    /\ pc = "check"
    /\ UNCHANGED main
    /\ \E mode \in PhpcsModes :
         LET o == Phpcs(<<Target>>, disk, mode)
             result == CheckOutcome(o)
         IN /\ calls' = Append(calls, Call("phpcs", "check", <<Target>>))
            /\ lastOut' = Out(o.status, o.stdout.kind)
            /\ chk' = result
            /\ IF op.name = "check"
               THEN ret' = Return(result) /\ resp' = resp
               ELSE resp' = formatCheckResult(result) /\ ret' = ret
    /\ pc' = "done"
    /\ UNCHANGED <<disk, op, files, idx, fixedFiles, fixRes, added,
                   fixChanged, fixInfo, failedFiles, prevFile>>

\* fix, first step: beforeCheck; a passing beforeCheck returns at once.
RunBeforeCheck ==
    /\ pc = "precheck"
    /\ UNCHANGED main
    /\ \E mode \in PhpcsModes :
         LET o == Phpcs(<<Target>>, disk, mode)
             beforeCheck == CheckOutcome(o)
         IN /\ calls' = Append(calls, Call("phpcs", "fix.before", <<Target>>))
            /\ lastOut' = Out(o.status, o.stdout.kind)
            /\ IF beforeCheck.success
               THEN /\ AfterFix(FixClean(Target, beforeCheck), FALSE)
                    /\ chk' = IF op.name \in SingleFixOps THEN beforeCheck ELSE None
               ELSE /\ pc' = "fixer"
                    /\ chk' = beforeCheck
                    /\ UNCHANGED <<idx, fixedFiles, fixRes, ret, resp,
                                   fixInfo, failedFiles, prevFile>>
    /\ fixChanged' = FALSE
    /\ UNCHANGED <<disk, op, files, added>>

\* fix, second step: phpcbf; exit status 2 throws to fix's catch.
RunPhpcbf ==
    /\ pc = "fixer"
    /\ UNCHANGED main
    /\ \E b \in Phpcbf(disk[Target]) :
         LET changed == b.content # disk[Target]
         IN /\ disk' = [disk EXCEPT ![Target] = b.content]
            /\ calls' = Append(calls, Call("phpcbf", "fix", <<Target>>))
            /\ lastOut' = Out(b.status, "text")
            /\ fixChanged' = changed
            /\ IF FixerThrows(b.status)
               THEN /\ AfterFix(FixFailed(Target), changed)
                    /\ chk' = IF op.name \in SingleFixOps THEN chk ELSE None
               ELSE /\ pc' = "recheck"
                    /\ UNCHANGED <<idx, fixedFiles, chk, fixRes, ret, resp,
                                   fixInfo, failedFiles, prevFile>>
    /\ UNCHANGED <<op, files, added>>

\* fix, third step: afterCheck, and the return with fixed: true.
RunAfterCheck ==
    /\ pc = "recheck"
    /\ UNCHANGED main
    /\ \E mode \in PhpcsModes :
         LET o == Phpcs(<<Target>>, disk, mode)
             afterCheck == CheckOutcome(o)
         IN /\ calls' = Append(calls, Call("phpcs", "fix.after", <<Target>>))
            /\ lastOut' = Out(o.status, o.stdout.kind)
            /\ chk' = IF op.name \in SingleFixOps THEN afterCheck ELSE None
            /\ AfterFix(FixDone(Target, afterCheck), fixChanged)
    /\ UNCHANGED <<disk, op, files, added, fixChanged>>

\* A variant of BatchTargets that verifies only the files that were fixed.
BatchTargetsFixedOnly == IF op.name \in BatchFixOps THEN fixedFiles ELSE files

\* The list checkFiles is called with: its caller's whole file list.
BatchTargets == files

\* checkFiles on a non-empty list: one phpcs run over all the files.
RunCheckFiles ==
    /\ pc = "batch"
    /\ UNCHANGED main
    /\ \E mode \in PhpcsModes :
         LET o == Phpcs(BatchTargets, disk, mode)
         IN /\ calls' = Append(calls, Call("phpcs", "checkFiles", BatchTargets))
            /\ lastOut' = Out(o.status, o.stdout.kind)
            /\ AfterCheckFiles(op.name, op.autoStage, CheckFilesOutcome(o),
                               fixedFiles)
    /\ UNCHANGED <<disk, op, files, idx, fixedFiles, fixRes, added,
                   fixChanged, fixInfo, failedFiles, prevFile>>

\* preCommitWorkflow, re-staging: execSync(reStageCommand) and the response.
RunGitAdd ==
    /\ pc = "add"
    /\ UNCHANGED main
    /\ \E ok \in BOOLEAN :
         LET cmd == ReStageCommand(fixedFiles)
         IN /\ calls' = Append(calls,
                  Call("git add", "preCommitWorkflow", CommandPaths(cmd)))
            /\ lastOut' = Out(IF ok THEN 0 ELSE 1, "text")
            /\ added' = IF ok THEN CommandPaths(cmd) ELSE <<>>
            /\ resp' = PreCommitResponse(chk, fixedFiles, cmd,
                                         IF ok THEN "ok" ELSE "failed")
    /\ pc' = "done"
    /\ UNCHANGED <<disk, op, files, idx, fixedFiles, chk, fixRes, ret,
                   fixChanged, fixInfo, failedFiles, prevFile>>

\* getStagedPhpFiles in checkStagedFiles and preCommitWorkflow: git diff,
\* and the early return on an empty list.  The old path of a rename may or
\* may not be a file of the working tree again; phpcs on a path that is
\* gone is one of its failing runs.
RunGitDiff ==
    /\ pc = "diff"
    /\ UNCHANGED main
    /\ \E gitOk \in BOOLEAN, out \in DiffOutputs :
         LET stagedFiles == getStagedPhpFiles(gitOk, out)
         IN /\ calls' = Append(calls, Call("git diff", "getStagedPhpFiles", <<>>))
            /\ lastOut' = [status |-> IF gitOk THEN 0 ELSE 128,
                            stdout |-> "text",
                            lines |-> IF gitOk THEN out ELSE <<>>]
            /\ IF Len(stagedFiles) = 0
               THEN /\ resp' = NoStagedResponse(op.name)
                    /\ pc' = "done"
                    /\ UNCHANGED <<files, idx>>
               ELSE /\ files' = FilePaths(stagedFiles)
                    /\ resp' = resp
                    /\ IF op.name = "wpcs_pre_commit"
                       THEN idx' = 1 /\ pc' = "precheck"
                       ELSE idx' = idx /\ pc' = "batch"
    /\ UNCHANGED <<disk, op, fixedFiles, chk, fixRes, ret, added,
                   fixChanged, fixInfo, failedFiles, prevFile>>

\* preCommitWorkflow, checkPhpcsInstalled: which phpcs.
RunWhichPhpcs ==
    /\ pc = "which"
    /\ UNCHANGED main
    /\ \E installed \in BOOLEAN :
         /\ calls' = Append(calls, Call("which phpcs", "checkPhpcsInstalled", <<>>))
         /\ lastOut' = Out(IF installed THEN 0 ELSE 1, "text")
         /\ IF installed
            THEN pc' = "info" /\ resp' = resp
            ELSE /\ resp' = errorResult(<<"phpcs not found in PATH">>)
                 /\ pc' = "done"
    /\ UNCHANGED <<disk, op, files, idx, fixedFiles, chk, fixRes, ret, added,
                   fixChanged, fixInfo, failedFiles, prevFile>>

\* preCommitWorkflow, checkWpcsInstalled: phpcs -i lists the standards; it
\* fails, lists WordPress, or lists none of that name.
RunPhpcsInfo ==
    /\ pc = "info"
    /\ UNCHANGED main
    /\ \E listing \in {"WordPress", "other", "failed"} :
         /\ calls' = Append(calls, Call("phpcs -i", "checkWpcsInstalled", <<>>))
         /\ lastOut' = Out(IF listing = "failed" THEN 1 ELSE 0, "text")
         /\ IF listing = "WordPress"
            THEN pc' = "diff" /\ resp' = resp
            ELSE /\ resp' = errorResult(<<"WordPress coding standard not found">>)
                 /\ pc' = "done"
    /\ UNCHANGED <<disk, op, files, idx, fixedFiles, chk, fixRes, ret, added,
                   fixChanged, fixInfo, failedFiles, prevFile>>

\* The per-file counts of a PHPCompatibilityWP report over the target; the
\* files under the --ignore patterns (vendor/*, ...) are not in it.
CompatFiles(target, errs, warns) ==
    LET kept == SelectSeq(FilesUnder(target), LAMBDA f : f \notin ExcludedPaths)
    IN [i \in 1..Len(kept) |->
           [path |-> kept[i], errors |-> errs, warnings |-> warns]]

\* The response of checkPhpCompatibility to the outcome of its phpcs run:
\* exit 0 passes, empty stdout is an error, stdout that does not parse
\* throws into the outer catch, a report is an error when the error counts
\* of its files add up to more than zero.
CompatResponse(status, kind, fs) ==
    IF status = 0 THEN successResult(<<"PHP COMPATIBILITY: PASSED">>)
    ELSE IF kind = "empty" THEN errorResult(<<"phpcs failed">>)
    ELSE IF kind # "json"
    THEN errorResult(<<"PHP compatibility check failed">>)
    ELSE [isError |-> SumErrors(fs) > 0,
          text |-> <<"PHP COMPATIBILITY: ISSUES FOUND">>]

\* checkPhpCompatibility: its own phpcs run (standard PHPCompatibilityWP,
\* --ignore for vendor/, node_modules/, build/, dist/, .git/) and the
\* response.  The php_version argument only changes the text.
RunCompatibilityCheck ==
    /\ pc = "compat"
    /\ UNCHANGED main
    /\ \E mode \in {"run", "crash", "garbage"}, errs \in 0..1, warns \in 0..1 :
         LET fs == CompatFiles(op.target, errs, warns)
             clean == SumErrors(fs) = 0 /\ SumWarnings(fs) = 0
             status == CASE mode = "crash" -> 255
                         [] mode = "garbage" -> 3
                         [] OTHER -> IF clean THEN 0 ELSE 1
             kind == CASE mode = "crash" -> "empty"
                       [] mode = "garbage" -> "text"
                       [] OTHER -> "json"
         IN /\ calls' = Append(calls, Call("phpcs", "checkPhpCompatibility",
                                           <<op.target>>))
            /\ lastOut' = Out(status, kind)
            /\ resp' = CompatResponse(status, kind, fs)
    /\ pc' = "done"
    /\ UNCHANGED <<disk, op, files, idx, fixedFiles, chk, fixRes, ret, added,
                   fixChanged, fixInfo, failedFiles, prevFile>>

\* The file lists a caller can hand to checkFiles and fixAndCheck.
FileLists == SeqsUpTo(Paths, MaxFiles)

Next ==
    \/ \E t \in Paths \cup {RootDir} : CallCheck(t)
    \/ \E f \in Paths : CallFix(f)
    \/ \E fs \in FileLists : CallCheckFiles(fs)
    \/ \E fs \in FileLists : CallFixAndCheck(fs)
    \/ \E name \in RequestNames, a \in AutoStageArgs :
          \E p \in ArgsOf(name) : CallTool(name, p, a)
    \/ RunCheck
    \/ RunBeforeCheck
    \/ RunPhpcbf
    \/ RunAfterCheck
    \/ RunCheckFiles
    \/ RunGitAdd
    \/ RunGitDiff
    \/ RunWhichPhpcs
    \/ RunPhpcsInfo
    \/ RunCompatibilityCheck

Spec == Init /\ [][Next]_vars


\* ----------------------------------------------------------- properties
Range(q) == {q[i] : i \in 1..Len(q)}

\* The results of check / checkFiles a state holds: the latest one, the one
\* inside the latest fix result, and the one inside what a direct call
\* returned.
HeldResults ==
    (IF chk # None THEN {chk} ELSE {})
    \cup (IF fixRes # None /\ fixRes.remainingIssues # None
          THEN {fixRes.remainingIssues} ELSE {})
    \cup (IF ret # None /\ ret.kind = "return" /\ op.name \in {"check", "checkFiles"}
          THEN {ret.value} ELSE {})
    \cup (IF ret # None /\ ret.kind = "return" /\ op.name = "fixAndCheck"
          THEN {ret.value.checkResult} ELSE {})

\* The calls of the log made by the method `by`.
CallsBy(by) == SelectSeq(calls, LAMBDA c : c.by = by)

IsCrash(o) == o # None /\ o.status # 0 /\ o.stdout = "empty"

\* C1: every result of check or checkFiles has canCommit true exactly when
\* its totalErrors is 0, whatever its totalWarnings.
C1_CanCommitIffNoErrors ==
    \A r \in HeldResults : r.canCommit <=> (r.totalErrors = 0)

\* C1 witness: a parsed report with warnings and no errors that does not block.
C1_Witness ==
    /\ pc = "done"
    /\ chk # None
    /\ ~chk.success
    /\ chk.totalWarnings > 0
    /\ chk.totalErrors = 0
    /\ chk.canCommit

\* C2: what fixAndCheck returns has a re-stage command exactly when
\* fixedFiles is not empty, and the command names exactly the fixed files.
C2_ReStageIffFixed ==
    (pc = "done" /\ op.name = "fixAndCheck" /\ ret.kind = "return") =>
        LET v == ret.value
        IN /\ (v.reStageCommand # None) <=> (Len(v.fixedFiles) > 0)
           /\ v.fixedFiles = fixedFiles
           /\ v.reStageCommand # None =>
                 /\ v.reStageCommand.prog = "git add"
                 /\ CommandPaths(v.reStageCommand) = v.fixedFiles

\* C2 witness: fixAndCheck returned with one of its two files fixed.
C2_Witness ==
    /\ pc = "done" /\ op.name = "fixAndCheck" /\ ret.kind = "return"
    /\ Len(files) = 2
    /\ Len(ret.value.fixedFiles) = 1
    /\ ret.value.reStageCommand # None

\* C3: checkFiles on the empty list returns the passing result with zero
\* totals and no files, and runs no external command.
C3_EmptyCheckFiles ==
    (pc = "done" /\ op.name = "checkFiles" /\ files = <<>>) =>
        /\ ret.kind = "return"
        /\ ret.value.success /\ ret.value.canCommit
        /\ ret.value.totalErrors = 0 /\ ret.value.totalWarnings = 0
        /\ ret.value.fixableCount = 0 /\ ret.value.files = <<>>
        /\ calls = <<>>

\* C3 witness: checkFiles was called with the empty list and returned.
C3_Witness ==
    /\ pc = "done" /\ op.name = "checkFiles" /\ files = <<>>
    /\ ret # None

\* C4: when phpcs exits non-zero with nothing on stdout, the result of check
\* and of checkFiles is a failure (not success, not canCommit, not zero
\* errors), and the response of the check tools carries the error flag.
C4_CrashIsFailure ==
    (IsCrash(lastOut) /\ chk # None) =>
        /\ ~chk.success
        /\ ~chk.canCommit
        /\ chk.totalErrors > 0
        /\ (pc = "done" /\ ret # None /\ op.name \in {"check", "checkFiles"}) =>
              ret = Return(chk)
        /\ (pc = "done" /\ op.name \in {"wpcs_check_file", "wpcs_check_directory",
                                       "wpcs_check_staged"}) =>
              resp.isError

\* C4 witness: a check tool answered after phpcs crashed on a file that has
\* no findings.
C4_Witness ==
    /\ pc = "done"
    /\ op.name \in {"wpcs_check_file", "wpcs_check_staged"}
    /\ IsCrash(lastOut)
    /\ Len(calls) > 0
    /\ calls[Len(calls)].cmd = "phpcs"
    /\ \A f \in Range(calls[Len(calls)].args) : disk[f] = CleanContent


\* A file whose only finding is one ERROR the fixer cannot fix.
UnfixableError == [ferr |-> FALSE, uerr |-> TRUE, warn |-> FALSE]

Ran(cmd) == \E i \in 1..Len(calls) : calls[i].cmd = cmd

\* C5: a fix that follows a completed fix of the same file reports
\* fixed = false; stated for the runs that favour the claim most: the first
\* fix succeeded, the file stayed as it was since the first call and through
\* the second, and it still has findings for the analyzer to report.
C5_SecondFixUnchanged ==
    (/\ fixInfo # None
     /\ fixInfo.again
     /\ ~fixInfo.changed
     /\ disk[fixInfo.file] # CleanContent) => ~fixInfo.fixed

\* C6: a pre-commit run over one file with a single unfixable ERROR that the
\* fixer leaves as it is attempts the fix, reports the file as not fixed,
\* and ends blocked, with no fixed file and no re-stage command.
C6_UnfixableErrorScenario ==
    (/\ pc = "done" /\ op.name \in BatchFixOps
     /\ Len(files) = 1
     /\ disk[files[1]] = UnfixableError
     /\ fixInfo # None /\ ~fixInfo.changed
     /\ Ran("phpcbf")
     /\ chk # None) =>
        /\ ~chk.canCommit
        /\ ~fixInfo.fixed
        /\ fixedFiles = <<>>
        /\ ReStageCommand(fixedFiles) = None
        /\ ~Ran("git add")

\* The staged PHP files were resolved and there are none.
ResolvedEmpty ==
    /\ pc # "idle"
    /\ op.name = "wpcs_pre_commit"
    /\ Ran("git diff")
    /\ files = <<>>

\* C7: a pre-commit run whose staged PHP set is empty ends at once as a
\* pass: no error flag, nothing reported fixed, nothing re-staged, and no
\* run of phpcbf, of the phpcs analysis or of git add.
C7_EmptyStagedPasses ==
    ResolvedEmpty =>
        /\ pc = "done"
        /\ ~resp.isError
        /\ resp.text[1] = "PRE-COMMIT: PASSED"
        /\ \A i \in 1..Len(resp.text) :
              resp.text[i] \notin {"AUTO-FIXED", "Re-stage fixed files with",
                                   "Fixed files have been re-staged"}
        /\ fixedFiles = <<>>
        /\ added = <<>>
        /\ calls[Len(calls)].cmd = "git diff"
        /\ ~Ran("phpcs") /\ ~Ran("phpcbf") /\ ~Ran("git add")

\* C7 witness: a pre-commit run found no staged PHP file and answered.
C7_Witness ==
    /\ ResolvedEmpty
    /\ pc = "done"
    /\ lastOut.status = 0

\* C8: after a pre-commit run that ran git add, the error flag is the
\* negation of the final report's canCommit and the verdict in the text
\* follows canCommit, whether git add failed or not; a failure shows only as
\* the warning in the text.
C8_ReStageFailureIsWarning ==
    (pc = "done" /\ op.name = "wpcs_pre_commit" /\ Ran("git add")) =>
        /\ resp.isError = ~chk.canCommit
        /\ resp.text[Len(resp.text)] =
              (IF chk.canCommit THEN "PRE-COMMIT: PASSED" ELSE "PRE-COMMIT: BLOCKED")
        /\ (lastOut.status # 0) <=>
              (\E i \in 1..Len(resp.text) :
                  resp.text[i] = "Warning: Could not re-stage files")
        /\ (lastOut.status # 0) => added = <<>>

\* C8 witness: git add failed in a run whose final report allows the commit.
C8_Witness ==
    /\ pc = "done" /\ op.name = "wpcs_pre_commit" /\ Ran("git add")
    /\ lastOut.status # 0
    /\ chk.canCommit
    /\ ~resp.isError

\* C9: a fix that fails on one candidate does not stop the batch: when the
\* run has ended, every candidate was passed to fix, in order, and the
\* check of all files ran over a list that holds every failed file.
C9_FixFailureIsolated ==
    (pc = "done" /\ op.name \in BatchFixOps /\ files # <<>>) =>
        /\ [i \in 1..Len(CallsBy("fix.before")) |-> CallsBy("fix.before")[i].args[1]]
              = files
        /\ Len(CallsBy("checkFiles")) > 0
        /\ \A i \in 1..Len(CallsBy("checkFiles")) :
              failedFiles \subseteq Range(CallsBy("checkFiles")[i].args)

\* C9 witness: the fix of the first of two different candidates failed and
\* the run went on to its end.
C9_Witness ==
    /\ pc = "done" /\ op.name \in BatchFixOps
    /\ Len(files) = 2 /\ files[1] # files[2]
    /\ failedFiles = {files[1]}

\* C10: a run of the fix-and-check workflow over a non-empty candidate list
\* that got past the fix pass made exactly one phpcs run for the final
\* report, over the whole candidate list in its order.
C10_VerifyOnceOverAll ==
    (pc \in {"add", "done"} /\ op.name \in BatchFixOps /\ files # <<>>) =>
        /\ Len(CallsBy("checkFiles")) = 1
        /\ CallsBy("checkFiles")[1].cmd = "phpcs"
        /\ CallsBy("checkFiles")[1].args = files

\* C10 witness: a run over two files of which one was fixed, one was clean
\* and left alone, ended with its final report.
C10_Witness ==
    /\ pc = "done" /\ op.name \in BatchFixOps
    /\ Len(files) = 2
    /\ Len(fixedFiles) = 1
    /\ failedFiles = {}
    /\ chk # None

\* ------------------------------------------------- C11 .. C20 properties
ResponseTools ==
    {"wpcs_check_staged", "wpcs_check_file", "wpcs_check_directory",
     "wpcs_fix_file", "wpcs_pre_commit"}

\* A tool call has answered and its required path argument was present.
Answered ==
    /\ pc = "done"
    /\ op.name \in ResponseTools
    /\ op.name \in PathTools => ~Falsy(op.target)

\* What the answered request ended with: its final report forbids the commit,
\* or an invocation failed and left no report to go by.
BlockedOrFailed ==
    IF op.name = "wpcs_fix_file"
    THEN \/ ~fixRes.success
         \/ ~fixRes.remainingIssues.canCommit
    ELSE IF chk # None THEN ~chk.canCommit
    ELSE ~(files = <<>> /\ calls[Len(calls)].cmd = "git diff")

\* The latest external command was an analyzer run that gave no report.
AnalyzerFailed ==
    /\ calls # <<>>
    /\ calls[Len(calls)].cmd = "phpcs"
    /\ lastOut.status # 0
    /\ lastOut.stdout # "json"

\* C11: the response of checkStaged, checkFile, checkDirectory, fixFile and
\* the pre-commit workflow, called with the required input, carries the error
\* flag exactly when the resulting canCommit is false or an invocation failed
\* without a usable report.  Stated for the runs that favour the claim: the
\* answers of fixFile whose last analyzer run failed are left out.
C11_ErrorFlagExact ==
    (Answered /\ ~(op.name = "wpcs_fix_file" /\ AnalyzerFailed)) =>
        (resp.isError <=> BlockedOrFailed)

ExcludingTools == {"wpcs_check_staged", "wpcs_check_directory", "wpcs_pre_commit"}

\* The files the analyzer runs and the fixer runs of this request processed.
Processed ==
    UNION {Range(Expand(calls[i].args)) :
              i \in {j \in 1..Len(calls) : calls[j].cmd \in {"phpcs", "phpcbf"}}}

\* The files with an entry in the report the request holds.
Reported ==
    IF chk = None THEN {} ELSE {chk.files[i].path : i \in 1..Len(chk.files)}

\* C12: in a request of wpcs_check_staged, wpcs_check_directory or
\* wpcs_pre_commit no PHP file under vendor/, node_modules/ or build/ is
\* passed to the analyzer or the fixer, and none has an entry in the report
\* (requests that name such a file themselves are left out).
C12_ExcludedDirectories ==
    (pc # "idle" /\ op.name \in ExcludingTools /\ op.target \notin ExcludedPaths) =>
        /\ Processed \cap ExcludedPaths = {}
        /\ Reported \cap ExcludedPaths = {}

InText(part) == \E i \in 1..Len(resp.text) : resp.text[i] = part

\* C13: when a pre-commit request has answered, git add was run exactly if
\* at least one file was reported fixed and auto_stage was not false; with
\* auto_stage false and files fixed nothing was added to the index and the
\* command is shown in the message.
C13_ReStageIffFixedAndAuto ==
    (pc = "done" /\ op.name = "wpcs_pre_commit") =>
        /\ Ran("git add") <=> (Len(fixedFiles) > 0 /\ op.autoStage)
        /\ (Len(fixedFiles) > 0 /\ ~op.autoStage) =>
              /\ added = <<>>
              /\ InText("Re-stage fixed files with")

\* C14 as stated: in every result of check or checkFiles success is true
\* exactly when there is no ERROR, so that success equals canCommit.
C14_SuccessIffNoErrors ==
    \A r \in HeldResults :
        /\ r.success <=> (r.totalErrors = 0)
        /\ r.success = r.canCommit

\* C14 amended: success is true only for a result without any finding (it
\* then has no error, no warning, no file entry, and allows the commit); a
\* result with warnings and no error has success false and canCommit true.
C14_SuccessOnlyWhenClean ==
    \A r \in HeldResults :
        /\ r.success =>
              /\ r.totalErrors = 0 /\ r.totalWarnings = 0
              /\ r.files = <<>>
              /\ r.canCommit
        /\ (r.totalErrors = 0 /\ r.totalWarnings > 0) =>
              (~r.success /\ r.canCommit)

\* C14 witness: check or checkFiles, called directly, returned a report with
\* warnings only: not success, yet canCommit.
C14_Witness ==
    /\ pc = "done" /\ op.name \in {"check", "checkFiles"}
    /\ ret.kind = "return"
    /\ ret.value.totalErrors = 0 /\ ret.value.totalWarnings > 0
    /\ ~ret.value.success
    /\ ret.value.canCommit

\* C15: in every per-file entry of every result of check or checkFiles the
\* error count is the number of its ERROR messages and the warning count is
\* the number of its WARNING messages.
C15_CountsMatchMessages ==
    \A r \in HeldResults : \A i \in 1..Len(r.files) :
        /\ r.files[i].errors = Len(SelectSeq(r.files[i].messages, IsError))
        /\ r.files[i].warnings = Len(SelectSeq(r.files[i].messages, IsWarning))

\* C16: a request of checkFile, checkDirectory, fixFile or the PHP
\* compatibility check whose required argument is missing or empty is
\* answered at once with the error flag, and no external command is run and
\* nothing is added to the index during it.
C16_MissingArgumentRejected ==
    (pc # "idle" /\ op.name \in PathTools /\ Falsy(op.target)) =>
        /\ pc = "done"
        /\ resp.isError
        /\ calls = <<>>
        /\ added = <<>>

\* C16 witness: the PHP compatibility check was called with an empty target,
\* after an earlier request, and answered.
C16_Witness ==
    /\ pc = "done"
    /\ op.name = "wpcs_check_php_compatibility"
    /\ op.target = ""
    /\ resp.isError
    /\ prevFile # Undefined

\* The git diff of this request failed.
GitFailed ==
    /\ pc # "idle"
    /\ op.name \in {"wpcs_check_staged", "wpcs_pre_commit"}
    /\ calls # <<>>
    /\ calls[Len(calls)].cmd = "git diff"
    /\ lastOut.status # 0

\* C17: when git diff fails, getStagedPhpFiles gives the empty list, and
\* checkStaged and the pre-commit workflow answer at once with the
\* nothing-to-check response, without the error flag and without running
\* the analyzer or the fixer.
C17_GitFailureIsEmpty ==
    /\ \A out \in DiffOutputs : getStagedPhpFiles(FALSE, out) = <<>>
    /\ GitFailed =>
          /\ pc = "done"
          /\ files = <<>>
          /\ resp = NoStagedResponse(op.name)
          /\ ~resp.isError
          /\ InText("No staged PHP files to check")
          /\ ~Ran("phpcs") /\ ~Ran("phpcbf") /\ ~Ran("git add")

\* C17 witness: git diff failed in a pre-commit request, which answered.
C17_Witness ==
    /\ GitFailed
    /\ op.name = "wpcs_pre_commit"
    /\ pc = "done"

\* The git diff of this request succeeded and is the latest command.
DiffDone ==
    /\ pc # "idle"
    /\ calls # <<>>
    /\ calls[Len(calls)].cmd = "git diff"
    /\ lastOut.status = 0

\* The path of the file a diff line stands for in the index: the path of
\* the line, for a rename the new path.
StagedPath(line) == line[Len(line)]

\* The staged PHP files of a diff output: the lines whose staged path ends
\* in .php and whose status is not D, in the order of the diff.
StagedPhp(out) ==
    LET kept == SelectSeq(out, LAMBDA l : EndsWithPhp(StagedPath(l)) /\ l[1] # "D")
    IN [i \in 1..Len(kept) |-> StagedPath(kept[i])]

\* C18: for every diff output getStagedPhpFiles gives exactly the staged
\* PHP files that are not deleted, in diff order, each path once, and each
\* path is the path of the file as it is staged.
C18_StagedPhpFilesExact ==
    DiffDone =>
        /\ files = StagedPhp(lastOut.lines)
        /\ \A i, j \in 1..Len(files) : files[i] = files[j] => i = j

NoDuplicates(q) == \A i, j \in 1..Len(q) : q[i] = q[j] => i = j

RECURSIVE Picked(_, _)
\* The entries of fs at the positions where rs is true, in order.
Picked(fs, rs) ==
    IF rs = <<>> THEN <<>>
    ELSE LET rest == Picked(fs, SubSeq(rs, 1, Len(rs) - 1))
         IN IF rs[Len(rs)] THEN Append(rest, fs[Len(rs)]) ELSE rest

\* C19: throughout a pre-commit run, and throughout a direct call of
\* fixAndCheck whose candidate list names no path twice, fixedFiles holds
\* exactly the candidates whose fix reported fixed, each once, in candidate
\* order.
C19_FixedFilesExact ==
    (/\ pc # "idle" /\ op.name \in BatchFixOps
     /\ op.name = "fixAndCheck" => NoDuplicates(files)) =>
        /\ Len(FixReports) <= Len(files)
        /\ fixedFiles = Picked(files, FixReports)
        /\ NoDuplicates(fixedFiles)
        /\ (pc \in {"batch", "add", "done"} /\ files # <<>> /\ Ran("phpcs")) =>
              Len(FixReports) = Len(files)

\* C19 witness: a pre-commit run over two staged files ended with both
\* reported fixed.
C19_Witness ==
    /\ pc = "done" /\ op.name = "wpcs_pre_commit"
    /\ Len(files) = 2
    /\ FixReports = <<TRUE, TRUE>>
    /\ fixedFiles = files

\* C20: a fix reports fixed exactly when the fixer changed the content of the
\* file, and a file the fixer left as it was is not put on fixedFiles;
\* stated for the fixes that returned success on a file that still has
\* findings afterwards.
C20_FixedIffChanged ==
    (fixInfo # None /\ fixInfo.success /\ disk[fixInfo.file] # CleanContent) =>
        /\ fixInfo.fixed <=> fixInfo.changed
        /\ (op.name \in BatchFixOps /\ NoDuplicates(files) /\ ~fixInfo.changed) =>
              fixInfo.file \notin Range(fixedFiles)

\* ------------------------------------------------- C21 .. C30 properties
\* The latest fix of this request returned straight after its pre-check.
ReturnedAfterPreCheck ==
    /\ pc \notin {"idle", "fixer"}
    /\ calls # <<>>
    /\ calls[Len(calls)].by = "fix.before"

\* The forward half of C21: a fix whose pre-check found nothing returns
\* without a run of the fixer, fixed false, the file as it was, and the
\* pre-check's result as remainingIssues.
CleanPreCheckSkipsFixer ==
    /\ ReturnedAfterPreCheck =>
          /\ lastOut.status = 0
          /\ fixInfo.success /\ ~fixInfo.fixed /\ ~fixInfo.changed
          /\ fixInfo.file = calls[Len(calls)].args[1]
          /\ op.name \in SingleFixOps =>
                /\ fixRes.remainingIssues = chk
                /\ chk.success
                /\ chk.totalErrors = 0 /\ chk.totalWarnings = 0
    /\ pc = "fixer" => lastOut.status # 0

\* C21 as stated: the forward half, and the fixer is about to run only when
\* the pre-check reported at least one finding (a report with a file entry).
C21_FixerOnlyOnFindings ==
    /\ CleanPreCheckSkipsFixer
    /\ pc = "fixer" => chk.files # <<>>

\* C21 amended: the forward half, and the fixer is about to run exactly when
\* the pre-check was not a clean pass: it reported findings, or the analyzer
\* run itself failed and gave the failure result.
C21_FixerUnlessCleanPreCheck ==
    /\ CleanPreCheckSkipsFixer
    /\ pc = "fixer" =>
          /\ ~chk.success
          /\ calls[Len(calls)].by = "fix.before"
          /\ chk.files # <<>> \/ chk = FailedResult("Error running phpcs")

\* C21 witness: fix, called directly on a file without findings, returned
\* after the pre-check alone.
C21_Witness ==
    /\ pc = "done" /\ op.name = "fix"
    /\ ReturnedAfterPreCheck
    /\ Len(calls) = 1
    /\ ret.value.remainingIssues.success
    /\ ~ret.value.fixed

\* The latest command of this request is the run of phpcbf.
AfterFixer ==
    /\ pc # "idle"
    /\ calls # <<>>
    /\ calls[Len(calls)].by = "fix"

\* The latest fix of this request returned after its re-check.
ReturnedAfterReCheck ==
    /\ pc # "idle"
    /\ calls # <<>>
    /\ calls[Len(calls)].by = "fix.after"

\* C22: after the run of the fixer, fix returns the failure (success false,
\* fixed false, no remainingIssues) exactly when the exit status is 2; on
\* every other status it goes on to the re-check and then returns
\* success true with the result of the re-check as remainingIssues.
C22_FailureIffStatusTwo ==
    /\ AfterFixer =>
          /\ (lastOut.status = 2) <=> (pc # "recheck")
          /\ pc # "recheck" =>
                /\ ~fixInfo.success /\ ~fixInfo.fixed
                /\ fixInfo.file = calls[Len(calls)].args[1]
                /\ op.name \in SingleFixOps => fixRes = FixFailed(op.target)
    /\ ReturnedAfterReCheck =>
          /\ fixInfo.success
          /\ fixInfo.file = calls[Len(calls)].args[1]
          /\ calls[Len(calls) - 1].by = "fix"
          /\ op.name \in SingleFixOps =>
                /\ fixRes.success
                /\ fixRes.remainingIssues = chk

\* C22 witness: phpcbf exited with status 2 in a wpcs_fix_file request, which
\* answered with the failure.
C22_Witness ==
    /\ AfterFixer
    /\ pc = "done" /\ op.name = "wpcs_fix_file"
    /\ lastOut.status = 2
    /\ resp.isError

\* The latest command is a phpcs run of check or checkFiles that exited
\* non-zero with stdout that is no JSON.
Unparsable ==
    /\ pc # "idle"
    /\ calls # <<>>
    /\ calls[Len(calls)].cmd = "phpcs"
    /\ calls[Len(calls)].by \in {"check", "checkFiles"}
    /\ lastOut.status # 0
    /\ lastOut.stdout = "text"

\* C23: on unparsable analyzer output check and checkFiles both give what
\* they give on a failed run without output: the failure result (not
\* success, not canCommit, an error counted, no file entries), returned to
\* the caller.
C23_ParseFailureIsInvocationFailure ==
    Unparsable =>
        /\ chk # None
        /\ ~chk.success /\ ~chk.canCommit
        /\ chk.totalErrors > 0
        /\ chk.files = <<>>
        /\ op.name \in RunnerOps => ret.kind = "return"

FixSteps == {"fix.before", "fix", "fix.after"}

\* The positions of the call log with a command run by `by`.
PositionsBy(by) == {i \in 1..Len(calls) : calls[i].by = by}

\* C24: in a fix-and-check run the commands are in order: the fixer and the
\* re-check of a file follow its pre-check directly, no fix step comes after
\* the check of all files, that check is run once and only after the fix of
\* every candidate has returned, and git add is run at most once, as the
\* last command, after that check.
C24_StrictOrder ==
    (pc # "idle" /\ op.name \in BatchFixOps) =>
        /\ \A i \in PositionsBy("fix") :
              /\ i > 1 /\ calls[i - 1].by = "fix.before"
              /\ calls[i - 1].args = calls[i].args
        /\ \A i \in PositionsBy("fix.after") :
              /\ i > 1 /\ calls[i - 1].by = "fix"
              /\ calls[i - 1].args = calls[i].args
        /\ \A i \in PositionsBy("checkFiles") :
              /\ \A j \in 1..Len(calls) : calls[j].by \in FixSteps => j < i
              /\ Len(FixReports) = Len(files)
        /\ Cardinality(PositionsBy("checkFiles")) <= 1
        /\ Cardinality(PositionsBy("preCommitWorkflow")) <= 1
        /\ \A i \in PositionsBy("preCommitWorkflow") :
              /\ i = Len(calls)
              /\ calls[i - 1].by = "checkFiles"
              /\ Len(FixReports) = Len(files)

\* C24 witness: a pre-commit run over two files went through both fixes, the
\* check of all files and git add.
C24_Witness ==
    /\ pc = "done" /\ op.name = "wpcs_pre_commit"
    /\ Len(files) = 2
    /\ PositionsBy("fix") # {}
    /\ PositionsBy("checkFiles") # {}
    /\ PositionsBy("preCommitWorkflow") # {}

\* The number of pre-checks of fix this request ran on file f.
FixRunsOn(f) ==
    Cardinality({i \in PositionsBy("fix.before") : calls[i].args = <<f>>})

\* C25: in a fix-and-check run, also over a candidate list that names a
\* path more than once, each file goes through fix at most once and is at
\* most once in fixedFiles and in the re-stage command.
C25_DuplicatesCollapse ==
    (pc # "idle" /\ op.name \in BatchFixOps) =>
        /\ \A f \in Paths : FixRunsOn(f) <= 1
        /\ NoDuplicates(fixedFiles)
        /\ ReStageCommand(fixedFiles) # None =>
              NoDuplicates(CommandPaths(ReStageCommand(fixedFiles)))

\* C26: no result of check or checkFiles has a per-file entry without
\* findings (zero errors, zero warnings, no message): the files the
\* analyzer lists as clean are left out.
C26_NoEmptyEntries ==
    \A r \in HeldResults : \A i \in 1..Len(r.files) :
        ~(/\ r.files[i].errors = 0
          /\ r.files[i].warnings = 0
          /\ r.files[i].messages = <<>>)

\* ------------------------------------------------------------- liveness
\* The positions at which the request waits in execSync for phpcs or phpcbf.
AnalyzerSteps == {"check", "precheck", "fixer", "recheck", "batch", "compat"}

\* The external command of the current step never exits.  execSync is given
\* no timeout option, so it never returns; the event loop stays blocked and
\* no other request is taken up.
Hang ==
    /\ pc \in AnalyzerSteps
    /\ pc' = "hung"
    /\ UNCHANGED <<disk, op, files, idx, fixedFiles, chk, fixRes, ret, resp,
                   calls, lastOut, added, fixChanged, fixInfo, failedFiles,
                   prevFile, main>>

NextLive == Next \/ Hang

\* The positions at which a request waits for an external command.
StepPositions == AnalyzerSteps \cup {"add", "diff", "which", "info"}

\* The request moves on from the command it waits for: what every step of
\* a started request (and Hang) does to pc and idx.  It can be taken
\* exactly when a step of the request can.
Advance ==
    /\ pc \in StepPositions
    /\ pc' \in StepPositions \cup {"done", "hung"}
    /\ idx' \in 0..(MaxFiles + 1)
    /\ <<pc', idx'>> # <<pc, idx>>

\* The server with commands that may hang.  A started request does not
\* stay for ever at a command that is over (synchronous handlers: nothing
\* else is scheduled in between); no request has to arrive.
LiveSpec == Init /\ [][NextLive]_vars /\ WF_<<pc, idx>>(Advance)

\* C27: every request that has started ends with an outcome.
C27_EventuallyReturns ==
    (pc \notin {"idle", "done"}) ~> (pc = "done")

\* ---------------------------------------------------------------- startup
\* The variables of the server; main does not touch them before
\* server.run().
serverVars == <<disk, pc, op, files, idx, fixedFiles, chk, fixRes, ret, resp,
                calls, lastOut, added, fixChanged, fixInfo, failedFiles,
                prevFile>>

\* process.exit(1)
Exit(m) == [m EXCEPT !.pc = "exited", !.exitCode = 1]

\* main: checkPhpVersion(); an invalid result exits.  (setupEnvironmentPath
\* before it only extends PATH, that is, what the commands will find.)
CheckPhp ==
    /\ main.pc = "start"
    /\ \E out \in PhpOutputs, whichOk \in BOOLEAN :
         LET phpCheck == checkPhpVersion(out, whichOk)
             held == [main EXCEPT !.phpCheck = phpCheck]
         IN main' = IF ~phpCheck.valid THEN Exit(held)
                    ELSE [held EXCEPT !.pc = "detect"]
    /\ UNCHANGED serverVars

\* main: checkPhpcsInstalled() and checkWpcsInstalled(), then the decision
\* to auto-install.
DetectDependencies ==
    /\ main.pc = "detect"
    /\ \E whichOk \in BOOLEAN, composerPhpcs \in BOOLEAN,
          listing \in PhpcsListings :
         LET phpcsCheck == checkPhpcsInstalled(whichOk, composerPhpcs)
             wpcsCheck == checkWpcsInstalled(listing)
         IN main' = [main EXCEPT !.phpcsCheck = phpcsCheck,
                                 !.wpcsCheck = wpcsCheck,
                                 !.checks = @ + 1,
                                 !.pc = IF NeedsInstall(phpcsCheck, wpcsCheck)
                                        THEN "install" ELSE "run"]
    /\ UNCHANGED serverVars

\* main: await autoInstallWpcs(); a failed install exits.
AutoInstall ==
    /\ main.pc = "install"
    /\ \E e \in InstallRuns :
         LET installResult == autoInstallWpcs(e)
             held == [main EXCEPT !.installResult = installResult,
                                  !.installs = @ + 1]
         IN main' = IF ~installResult.success THEN Exit(held)
                    ELSE [held EXCEPT !.pc = "verify"]
    /\ UNCHANGED serverVars

\* main: the re-check after the installation; a failed one exits.
ReCheck ==
    /\ main.pc = "verify"
    /\ \E whichOk \in BOOLEAN, composerPhpcs \in BOOLEAN,
          listing \in PhpcsListings :
         LET phpcsCheck == checkPhpcsInstalled(whichOk, composerPhpcs)
             wpcsCheck == checkWpcsInstalled(listing)
             held == [main EXCEPT !.phpcsCheck = phpcsCheck,
                                  !.wpcsCheck = wpcsCheck,
                                  !.checks = @ + 1]
         IN main' = IF NeedsInstall(phpcsCheck, wpcsCheck) THEN Exit(held)
                    ELSE [held EXCEPT !.pc = "run"]
    /\ UNCHANGED serverVars

\* main: new WpcsMcpServer() and await server.run(); a rejection reaches
\* main().catch, which exits.
Run ==
    /\ main.pc = "run"
    /\ \E connected \in BOOLEAN :
         main' = IF connected THEN [main EXCEPT !.pc = "serving"]
                 ELSE Exit(main)
    /\ UNCHANGED serverVars

StartInit == ServerInit /\ main = MainStart

StartNext ==
    \/ CheckPhp
    \/ DetectDependencies
    \/ AutoInstall
    \/ ReCheck
    \/ Run

\* The start of the process, up to serving or exit.
StartSpec == StartInit /\ [][StartNext]_vars

\* The latest detection held by main missed phpcs or the WordPress standard.
NotDetected ==
    /\ main.phpcsCheck # None
    /\ ~(main.phpcsCheck.installed /\ main.wpcsCheck.installed)

\* C28: the process serves only with a valid PHP check (8.2 or later) and
\* with phpcs and the WordPress standard detected by the latest detection,
\* which is the first one when nothing was installed and the re-check after
\* a successful auto-install otherwise; a failed PHP check, a failed
\* auto-install and a failed re-check have each led to exit status 1 and
\* never to serving; auto-install has run at most once.
C28_ServesOnlyWhenReady ==
    /\ main.installs <= 1
    /\ main.pc = "serving" =>
         /\ main.phpCheck # None /\ main.phpCheck.valid
         /\ main.phpCheck.major * 100 + main.phpCheck.minor
              >= MinPhpVersion.major * 100 + MinPhpVersion.minor
         /\ main.phpcsCheck # None /\ ~NotDetected
         /\ main.checks = main.installs + 1
         /\ main.installs = 1 => main.installResult.success
         /\ main.exitCode = None
    /\ main.pc = "exited" => main.exitCode = 1
    /\ main.pc # "exited" => main.exitCode = None
    /\ (main.phpCheck # None /\ ~main.phpCheck.valid) => main.pc = "exited"
    /\ (main.installResult # None /\ ~main.installResult.success)
         => main.pc = "exited"
    /\ (NotDetected /\ main.checks = 1) => main.pc \in {"install", "verify", "exited"}
    /\ (NotDetected /\ main.checks = 2) => main.pc = "exited"
    /\ pc # "idle" => main.pc = "serving"

\* The server serves after an auto-install and its re-check.
C28_Witness ==
    /\ main.pc = "serving"
    /\ main.installs = 1
    /\ main.checks = 2

\* C29: when a pre-commit request with auto-staging has answered and at
\* least one of its fixes reported fixed, git add was run, whatever the
\* check of all files ended with (commit allowed, commit blocked, or an
\* analyzer run without a usable report).
C29_ReStageRegardless ==
    (/\ pc = "done" /\ op.name = "wpcs_pre_commit" /\ op.autoStage
     /\ \E i \in 1..Len(FixReports) : FixReports[i]) =>
        Ran("git add")

\* A tool call has ended.
ToolCallDone == pc = "done" /\ op.name \in RequestNames

\* An exception was thrown while a known tool ran: checkFiles could not parse
\* the analyzer's output.
ThrownInTool ==
    /\ ToolCallDone
    /\ Unparsable
    /\ calls[Len(calls)].by = "checkFiles"

\* C30: every tool call that has ended holds a response and nothing thrown:
\* a name that is no tool gets the error-flagged 'Unknown tool' response
\* without any command run, and a call in which an exception was thrown
\* holds the error-flagged 'Tool execution failed' response, which is never
\* without the error flag.
C30_AlwaysAResponse ==
    ToolCallDone =>
        /\ resp # None
        /\ ret = None
        /\ op.name \notin ToolNames =>
              /\ resp.isError
              /\ resp.text = <<"Error", "Unknown tool", op.name>>
              /\ calls = <<>>
        /\ ThrownInTool =>
              /\ resp.isError
              /\ resp.text = <<"Error", "Tool execution failed">>
        /\ InText("Tool execution failed") => resp.isError

\* A batch check of staged files ended on unparsable output with the
\* error-flagged response.
C30_Witness ==
    /\ ThrownInTool
    /\ op.name = "wpcs_check_staged"
    /\ resp = errorResult(<<"Tool execution failed">>)

====
